---- MODULE Spec2Model ----
(***************************************************************************)
(* Model of the two scripts of the repository:                             *)
(*   KDE_Kali_linux_get_current_settings_and_themes.py   (the exporter)    *)
(*   KDE_Kali_reinstall_fav_settings_and_themes.py       (the importer)    *)
(* The live configuration store (gsettings), the file settings.json and    *)
(* the position of each script are the state.  Each subprocess.run call,   *)
(* the open, the write and the close of settings.json are steps.           *)
(***************************************************************************)
EXTENDS Integers, Sequences, FiniteSets, TLC

(* ------------------------------------------------------------------ *)
(* Bounds                                                             *)
(* ------------------------------------------------------------------ *)
\* most external-process failures (nonzero exit) in one behaviour
MaxFail == 1
\* longest partial standard output a failed read leaves behind
MaxPartial == 2

(* ------------------------------------------------------------------ *)
(* The five keys and the gsettings address each one reads and writes  *)
(* ------------------------------------------------------------------ *)
Keys == {"gtk_theme", "icon_theme", "cursor_theme", "wallpaper", "color_scheme"}

\* the profile schema argument: passed as one argv element, no shell, so the
\* "$(gsettings get ...)" text is part of the literal path
ProfileSchema == "org.gnome.Terminal.Legacy.Profile:/org/gnome/terminal/legacy/profiles:/:$(...)/"

ReadAddr(k) ==
  CASE k = "gtk_theme"    -> <<"org.gnome.desktop.interface", "gtk-theme">>
    [] k = "icon_theme"   -> <<"org.gnome.desktop.interface", "icon-theme">>
    [] k = "cursor_theme" -> <<"org.gnome.desktop.interface", "cursor-theme">>
    [] k = "wallpaper"    -> <<"org.gnome.desktop.background", "picture-uri">>
    [] k = "color_scheme" -> <<ProfileSchema, "foreground-color">>

WriteAddrSwapped(k) ==
  CASE k = "gtk_theme"    -> <<"org.gnome.desktop.interface", "gtk-theme">>
    [] k = "icon_theme"   -> <<"org.gnome.desktop.interface", "icon-theme">>
    [] k = "cursor_theme" -> <<"org.gnome.desktop.interface", "cursor-theme">>
    [] k = "wallpaper"    -> <<"org.gnome.desktop.interface", "gtk-theme">>
    [] k = "color_scheme" -> <<ProfileSchema, "foreground-color">>

WriteAddr(k) ==
  CASE k = "gtk_theme"    -> <<"org.gnome.desktop.interface", "gtk-theme">>
    [] k = "icon_theme"   -> <<"org.gnome.desktop.interface", "icon-theme">>
    [] k = "cursor_theme" -> <<"org.gnome.desktop.interface", "cursor-theme">>
    [] k = "wallpaper"    -> <<"org.gnome.desktop.background", "picture-uri">>
    [] k = "color_scheme" -> <<ProfileSchema, "foreground-color">>

Addrs == {ReadAddr(k) : k \in Keys} \cup {WriteAddr(k) : k \in Keys}

\* the order in which the exporter queries the keys (statement order)
ExpOrderShort == <<"gtk_theme", "icon_theme", "cursor_theme", "wallpaper">>

ExpOrder == <<"gtk_theme", "icon_theme", "cursor_theme", "wallpaper", "color_scheme">>

\* the order in which the importer writes the keys (statement order)
ImpOrderSwapped == <<"gtk_theme", "cursor_theme", "icon_theme", "wallpaper", "color_scheme">>

ImpOrder == <<"gtk_theme", "icon_theme", "cursor_theme", "wallpaper", "color_scheme">>

(* ------------------------------------------------------------------ *)
(* Text: characters, bytes, UTF-8, whitespace stripping               *)
(* ------------------------------------------------------------------ *)
Letter(k) ==
  CASE k = "gtk_theme"    -> "a"
    [] k = "icon_theme"   -> "b"
    [] k = "cursor_theme" -> "c"
    [] k = "wallpaper"    -> "d"
    [] k = "color_scheme" -> "e"

\* one-byte characters; "LF" is the newline, "eacute" a two-byte character
Ascii == {"a", "b", "c", "d", "e", " ", "'", "LF"}
\* ASCII whitespace, what bytes.strip() removes
Whitespace == {" ", "LF"}

RECURSIVE Encode(_)
Encode(s) ==
  IF s = <<>> THEN <<>>
  ELSE IF Head(s) = "eacute" THEN <<"C3", "A9">> \o Encode(Tail(s))
  ELSE <<Head(s)>> \o Encode(Tail(s))

\* bytes.decode("utf-8"): ok = FALSE stands for UnicodeDecodeError
RECURSIVE Decode(_)
Decode(bs) ==
  IF bs = <<>> THEN [ok |-> TRUE, s |-> <<>>]
  ELSE IF Head(bs) \in Ascii
    THEN LET r == Decode(Tail(bs)) IN [ok |-> r.ok, s |-> <<Head(bs)>> \o r.s]
  ELSE IF Head(bs) = "C3" /\ Len(bs) >= 2 /\ bs[2] = "A9"
    THEN LET r == Decode(SubSeq(bs, 3, Len(bs))) IN [ok |-> r.ok, s |-> <<"eacute">> \o r.s]
  ELSE [ok |-> FALSE, s |-> <<>>]

SeqMin(S) == CHOOSE x \in S : \A y \in S : x <= y
SeqMax(S) == CHOOSE x \in S : \A y \in S : x >= y

StripLeftOnly(bs) ==
  LET keep == {i \in 1..Len(bs) : bs[i] \notin Whitespace}
  IN  IF keep = {} THEN <<>> ELSE SubSeq(bs, SeqMin(keep), Len(bs))

\* bytes.strip()
Strip(bs) ==
  LET keep == {i \in 1..Len(bs) : bs[i] \notin Whitespace}
  IN  IF keep = {} THEN <<>> ELSE SubSeq(bs, SeqMin(keep), SeqMax(keep))

(* ------------------------------------------------------------------ *)
(* The external tool: gsettings get prints a string setting quoted and *)
(* newline-terminated; gsettings set parses its value argument         *)
(* ------------------------------------------------------------------ *)
GetText(v) == <<"'">> \o Encode(v) \o <<"'", "LF">>

Prefixes(bs, n) == {SubSeq(bs, 1, m) : m \in 0..(IF n < Len(bs) THEN n ELSE Len(bs) - 1)}

\* a quoted argument is the quoted string; an argument that does not start
\* with a quote is taken as the string itself; anything else is rejected
SetParse(arg) ==
  IF Len(arg) >= 2 /\ arg[1] = "'" /\ arg[Len(arg)] = "'"
       /\ \A i \in 2..(Len(arg) - 1) : arg[i] # "'"
    THEN [ok |-> TRUE, v |-> SubSeq(arg, 2, Len(arg) - 1)]
  ELSE IF arg = <<>> \/ arg[1] # "'"
    THEN [ok |-> (\A i \in 1..Len(arg) : arg[i] # "'"), v |-> arg]
  ELSE [ok |-> FALSE, v |-> <<>>]

(* ------------------------------------------------------------------ *)
(* settings.json: json.dump and json.load on a flat str -> str object  *)
(* ------------------------------------------------------------------ *)
LB == [t |-> "{", k |-> "", v |-> <<>>]
RB == [t |-> "}", k |-> "", v |-> <<>>]
KV(key, val) == [t |-> "kv", k |-> key, v |-> val]
Junk == [t |-> "junk", k |-> "", v |-> <<>>]

\* entries in insertion order, which is statement order
Entries(d, order) ==
  LET idx == {i \in 1..Len(order) : order[i] \in DOMAIN d}
      RECURSIVE Build(_)
      Build(S) == IF S = {} THEN <<>>
                  ELSE LET i == SeqMin(S)
                       IN <<KV(order[i], d[order[i]])>> \o Build(S \ {i})
  IN Build(idx)

Dump(d) == <<LB>> \o Entries(d, ExpOrder) \o <<RB>>

Parses(text) ==
  /\ Len(text) >= 2
  /\ text[1] = LB
  /\ text[Len(text)] = RB
  /\ \A i \in 2..(Len(text) - 1) : text[i].t = "kv"

\* a repeated key keeps its last value
Parse(text) ==
  LET ks == {text[i].k : i \in 2..(Len(text) - 1)}
  IN [key \in ks |->
        text[SeqMax({i \in 2..(Len(text) - 1) : text[i].k = key})].v]

EmptyDict == [key \in {} |-> <<>>]
NoFile == [exists |-> FALSE, text |-> <<>>]
FileOf(text) == [exists |-> TRUE, text |-> text]

(* ------------------------------------------------------------------ *)
(* State                                                              *)
(* ------------------------------------------------------------------ *)
VARIABLES
  store,        \* live configuration store: address -> string value
  file,         \* settings.json: [exists, text]
  toolPresent,  \* whether the gsettings executable can be started
  conc,         \* whether the user starts the two scripts concurrently
  fails,        \* external-process failures so far
  epc,          \* exporter position
  expSettings,  \* the exporter's settings dict
  eouts,        \* standard output captured for each key queried so far
  efail,        \* keys whose read query exited nonzero
  ipc,          \* importer position
  impSettings,  \* the importer's settings dict
  iloaded,      \* settings.json as the importer's open/json.load saw it
  wlog,         \* write invocations the importer has issued, in order
  impAfterExp,  \* the importer was started after the exporter completed
  store0,       \* the store before any run
  file0         \* settings.json before any run

vars == <<store, file, toolPresent, conc, fails, epc, expSettings, eouts, efail,
          ipc, impSettings, iloaded, wlog, impAfterExp, store0, file0>>

envVars == <<toolPresent, conc, store0, file0>>
expVars == <<epc, expSettings, eouts, efail>>
impVars == <<ipc, impSettings, iloaded, wlog, impAfterExp>>

\* positions in which a script is not running
Quiet == {"idle", "done", "failed"}

(* ------------------------------------------------------------------ *)
(* Initial states                                                     *)
(* ------------------------------------------------------------------ *)
KeyList == <<"gtk_theme", "icon_theme", "cursor_theme", "wallpaper", "color_scheme">>

KeyAt(a) == CHOOSE k \in Keys : ReadAddr(k) = a

\* which settings hold a letter and a trailing blank; the others hold "eacute"
LetterKeySets ==
  {Keys, {}, {"gtk_theme", "cursor_theme", "color_scheme"}, {"icon_theme", "wallpaper"}}

Stores ==
  {[a \in Addrs |-> IF KeyAt(a) \in S THEN <<Letter(KeyAt(a)), " ">> ELSE <<"eacute">>] :
     S \in LetterKeySets}

DocText(d) == <<LB>> \o Entries(d, KeyList) \o <<RB>>

\* a hand-written record with bare values, and a record as an export leaves it
BareRecord == [k \in Keys |-> <<Letter(k), Letter(k)>>]
QuotedRecord == [k \in Keys |-> <<"'", Letter(k), "'">>]

Without(d, m) == [k \in (DOMAIN d) \ {m} |-> d[k]]

InitFiles ==
  {NoFile, FileOf(<<>>), FileOf(<<LB, Junk>>),
   FileOf(DocText(BareRecord)), FileOf(DocText(QuotedRecord))}
  \cup {FileOf(DocText(Without(BareRecord, m))) : m \in Keys}

InitCommon ==
  /\ toolPresent \in BOOLEAN
  /\ fails = 0
  /\ epc = "idle"
  /\ expSettings = EmptyDict
  /\ eouts = EmptyDict
  /\ efail = {}
  /\ ipc = "idle"
  /\ impSettings = EmptyDict
  /\ iloaded = NoFile
  /\ wlog = <<>>
  /\ impAfterExp = FALSE
  /\ store0 = store
  /\ file0 = file

\* the scripts are run one after the other, in either order
Init ==
  /\ store \in Stores
  /\ file \in InitFiles
  /\ conc = FALSE
  /\ InitCommon

\* the scripts are started without waiting for each other
InitConc ==
  /\ store \in {[a \in Addrs |-> <<Letter(KeyAt(a)), " ">>], [a \in Addrs |-> <<"eacute">>]}
  /\ file \in {NoFile, FileOf(DocText(QuotedRecord)),
               FileOf(DocText(Without(BareRecord, "color_scheme")))}
  /\ conc = TRUE
  /\ InitCommon

(* ------------------------------------------------------------------ *)
(* Exporter                                                           *)
(* ------------------------------------------------------------------ *)
ExpNextKey == ExpOrder[Cardinality(DOMAIN expSettings) + 1]

ExpStartOpensEarly ==
  /\ epc = "idle"
  /\ conc \/ ipc \in Quiet
  /\ epc' = "query"
  /\ expSettings' = EmptyDict
  /\ file' = FileOf(<<>>)
  /\ UNCHANGED <<store, fails, eouts, efail, impVars, envVars>>

\* the script is started; settings = {}
ExpStart ==
  /\ epc = "idle"
  /\ conc \/ ipc \in Quiet
  /\ epc' = "query"
  /\ expSettings' = EmptyDict
  /\ UNCHANGED <<store, file, fails, eouts, efail, impVars, envVars>>

\* .stdout.strip().decode("utf-8") and settings[k] = ...
ExpCollect(k, out, failed) ==
  LET d == Decode(Strip(out))
  IN /\ eouts' = eouts @@ (k :> out)
     /\ efail' = IF failed THEN efail \cup {k} ELSE efail
     /\ IF d.ok
          THEN /\ expSettings' = expSettings @@ (k :> d.s)
               /\ epc' = IF Cardinality(DOMAIN expSettings) + 1 = Len(ExpOrder)
                           THEN "open" ELSE "query"
          ELSE /\ expSettings' = expSettings
               /\ epc' = "failed"

\* gsettings get exits 0 with the value's text on standard output
ExpQueryOk ==
  /\ epc = "query"
  /\ toolPresent
  /\ ExpCollect(ExpNextKey, GetText(store[ReadAddr(ExpNextKey)]), FALSE)
  /\ UNCHANGED <<store, file, fails, impVars, envVars>>

\* gsettings get exits nonzero, leaving no or partial standard output; the
\* return code is not looked at
ExpQueryFail ==
  /\ epc = "query"
  /\ toolPresent
  /\ fails < MaxFail
  /\ fails' = fails + 1
  /\ \E out \in Prefixes(GetText(store[ReadAddr(ExpNextKey)]), MaxPartial) :
       ExpCollect(ExpNextKey, out, TRUE)
  /\ UNCHANGED <<store, file, impVars, envVars>>

\* subprocess.run raises FileNotFoundError when the executable is missing
ExpToolMissing ==
  /\ epc = "query"
  /\ ~toolPresent
  /\ epc' = "failed"
  /\ UNCHANGED <<store, file, fails, expSettings, eouts, efail, impVars, envVars>>

\* open("settings.json", "w") creates or truncates the file
ExpOpen ==
  /\ epc = "open"
  /\ file' = FileOf(<<>>)
  /\ epc' = "write"
  /\ UNCHANGED <<store, fails, expSettings, eouts, efail, impVars, envVars>>

\* json.dump(settings, f): the text reaches the file in one or more pieces
ExpWrite ==
  /\ epc = "write"
  /\ Len(file.text) < Len(Dump(expSettings))
  /\ \E n \in (Len(file.text) + 1)..Len(Dump(expSettings)) :
       file' = FileOf(SubSeq(Dump(expSettings), 1, n))
  /\ UNCHANGED <<store, fails, expVars, impVars, envVars>>

\* the with block closes the file and the script ends
ExpClose ==
  /\ epc = "write"
  /\ Len(file.text) = Len(Dump(expSettings))
  /\ epc' = "done"
  /\ UNCHANGED <<store, file, fails, expSettings, eouts, efail, impVars, envVars>>

(* ------------------------------------------------------------------ *)
(* Importer                                                           *)
(* ------------------------------------------------------------------ *)
ImpNextKey == ImpOrder[Len(wlog) + 1]

\* the script is started
ImpStart ==
  /\ ipc = "idle"
  /\ conc \/ epc \in Quiet
  /\ ipc' = "load"
  /\ impAfterExp' = (epc = "done")
  /\ UNCHANGED <<store, file, fails, impSettings, iloaded, wlog, expVars, envVars>>

\* open("settings.json", "r") and json.load(f) succeed
ImpLoadOk ==
  /\ ipc = "load"
  /\ file.exists
  /\ Parses(file.text)
  /\ impSettings' = Parse(file.text)
  /\ iloaded' = file
  /\ ipc' = "write"
  /\ UNCHANGED <<store, file, fails, wlog, impAfterExp, expVars, envVars>>

ImpLoadFailDefaults ==
  /\ ipc = "load"
  /\ ~(file.exists /\ Parses(file.text))
  /\ impSettings' = BareRecord
  /\ iloaded' = file
  /\ ipc' = "write"
  /\ UNCHANGED <<store, file, fails, wlog, impAfterExp, expVars, envVars>>

\* FileNotFoundError from open, or JSONDecodeError from json.load
ImpLoadFail ==
  /\ ipc = "load"
  /\ ~(file.exists /\ Parses(file.text))
  /\ iloaded' = file
  /\ ipc' = "failed"
  /\ UNCHANGED <<store, file, fails, impSettings, wlog, impAfterExp, expVars, envVars>>

\* settings[k] raises KeyError; the argument list is built before the call
ImpKeyError ==
  /\ ipc = "write"
  /\ ImpNextKey \notin DOMAIN impSettings
  /\ ipc' = "failed"
  /\ UNCHANGED <<store, file, fails, impSettings, iloaded, wlog, impAfterExp, expVars, envVars>>

\* subprocess.run raises FileNotFoundError when the executable is missing
ImpToolMissing ==
  /\ ipc = "write"
  /\ ImpNextKey \in DOMAIN impSettings
  /\ ~toolPresent
  /\ ipc' = "failed"
  /\ UNCHANGED <<store, file, fails, impSettings, iloaded, wlog, impAfterExp, expVars, envVars>>

ImpValueReread(k) ==
  IF file.exists /\ Parses(file.text) /\ k \in DOMAIN Parse(file.text)
    THEN Parse(file.text)[k] ELSE impSettings[k]

\* the value argument of the write: settings[k]
ImpValue(k) == impSettings[k]

ImpAfterWrite == IF Len(wlog) + 1 = Len(ImpOrder) THEN "done" ELSE "write"

\* gsettings set exits 0 and the store holds the parsed value
ImpWriteOk ==
  /\ ipc = "write"
  /\ ImpNextKey \in DOMAIN impSettings
  /\ toolPresent
  /\ LET k == ImpNextKey
         p == SetParse(ImpValue(k))
     IN /\ p.ok
        /\ store' = [store EXCEPT ![WriteAddr(k)] = p.v]
        /\ wlog' = Append(wlog, [k |-> k, addr |-> WriteAddr(k), v |-> ImpValue(k), ok |-> TRUE])
  /\ ipc' = ImpAfterWrite
  /\ UNCHANGED <<file, fails, impSettings, iloaded, impAfterExp, expVars, envVars>>

ImpWriteFailAborts ==
  /\ ipc = "write"
  /\ ImpNextKey \in DOMAIN impSettings
  /\ toolPresent
  /\ LET k == ImpNextKey
         p == SetParse(ImpValue(k))
     IN /\ ~p.ok \/ fails < MaxFail
        /\ fails' = IF p.ok THEN fails + 1 ELSE fails
        /\ wlog' = Append(wlog, [k |-> k, addr |-> WriteAddr(k), v |-> ImpValue(k), ok |-> FALSE])
  /\ ipc' = "failed"
  /\ UNCHANGED <<store, file, impSettings, iloaded, impAfterExp, expVars, envVars>>

\* gsettings set exits nonzero (value rejected, or the session fails); the
\* return code is not looked at and the script goes on
ImpWriteFail ==
  /\ ipc = "write"
  /\ ImpNextKey \in DOMAIN impSettings
  /\ toolPresent
  /\ LET k == ImpNextKey
         p == SetParse(ImpValue(k))
     IN /\ ~p.ok \/ fails < MaxFail
        /\ fails' = IF p.ok THEN fails + 1 ELSE fails
        /\ wlog' = Append(wlog, [k |-> k, addr |-> WriteAddr(k), v |-> ImpValue(k), ok |-> FALSE])
  /\ ipc' = ImpAfterWrite
  /\ UNCHANGED <<store, file, impSettings, iloaded, impAfterExp, expVars, envVars>>

(* ------------------------------------------------------------------ *)
(* Specifications                                                     *)
(* ------------------------------------------------------------------ *)
Next ==
  \/ ExpStart
  \/ ExpQueryOk
  \/ ExpQueryFail
  \/ ExpToolMissing
  \/ ExpOpen
  \/ ExpWrite
  \/ ExpClose
  \/ ImpStart
  \/ ImpLoadOk
  \/ ImpLoadFail
  \/ ImpKeyError
  \/ ImpToolMissing
  \/ ImpWriteOk
  \/ ImpWriteFail

Spec == Init /\ [][Next]_vars

SpecConc == InitConc /\ [][Next]_vars

(* ------------------------------------------------------------------ *)
(* Properties                                                         *)
(* ------------------------------------------------------------------ *)
LoadedOk == iloaded.exists /\ Parses(iloaded.text)
ImpPastLoad == ipc \in {"write", "done", "failed"}
FileIsRecord == file.exists /\ Parses(file.text)

\* v is out with the whitespace around it, and nothing else, taken away
IsStripped(v, out) ==
  LET b == Encode(v)
  IN /\ b = <<>> \/ (b[1] \notin Whitespace /\ b[Len(b)] \notin Whitespace)
     /\ \E i \in 0..(Len(out) - Len(b)) :
          /\ SubSeq(out, i + 1, i + Len(b)) = b
          /\ \A j \in 1..i : out[j] \in Whitespace
          /\ \A j \in (i + Len(b) + 1)..Len(out) : out[j] \in Whitespace

\* C1: an import of a document that parses but lacks one of the five keys
\* never completes, and when it fails it has issued no write, whichever key
\* is the missing one.
C1_MissingKeyFailsBeforeAnyWrite ==
  (ImpPastLoad /\ LoadedOk /\ DOMAIN Parse(iloaded.text) # Keys)
    => (ipc # "done" /\ (ipc = "failed" => wlog = <<>>))

\* C2: when settings.json is missing or is not well-formed JSON, the import
\* aborts with no write issued and the store as it was before the run.
C2_BadFileAbortsWithoutWrites ==
  (ImpPastLoad /\ ~LoadedOk) => (ipc = "failed" /\ wlog = <<>> /\ store = store0)

C2_Witness ==
  ipc = "failed" /\ iloaded.exists /\ iloaded.text # <<>> /\ ~Parses(iloaded.text)

\* C3: a completed import has issued exactly five writes, one per key in the
\* order gtk_theme, icon_theme, cursor_theme, wallpaper, color_scheme, each
\* with the string the document holds under that key.
C3_FiveWritesInOrder ==
  ipc = "done" =>
    /\ Len(wlog) = 5
    /\ \A i \in 1..5 :
         /\ wlog[i].k = KeyList[i]
         /\ wlog[i].k \in DOMAIN Parse(iloaded.text)
         /\ wlog[i].v = Parse(iloaded.text)[KeyList[i]]

C3_Witness ==
  /\ ipc = "done"
  /\ iloaded = FileOf(DocText(BareRecord))
  /\ \A i \in 1..Len(wlog) : wlog[i].ok

\* C4: after a completed export settings.json holds all five keys, each with
\* the standard output of that key's read query stripped of the whitespace
\* around it; a read that exited 0 printed the value at the key's address.
C4_ExportedValuesAreStrippedOutputs ==
  epc = "done" =>
    /\ FileIsRecord
    /\ DOMAIN Parse(file.text) = Keys
    /\ DOMAIN eouts = Keys
    /\ \A k \in Keys : IsStripped(Parse(file.text)[k], eouts[k])
    /\ (ipc = "idle" \/ ~impAfterExp) =>
         \A k \in Keys \ efail : eouts[k] = GetText(store[ReadAddr(k)])

C4_Witness ==
  /\ epc = "done"
  /\ efail = {}
  /\ FileIsRecord
  /\ Parse(file.text)["gtk_theme"] = <<"'", "a", " ", "'">>

\* C5: when a read query fails, by nonzero exit or because the tool is
\* missing, the export raises no error and, once complete, settings.json
\* holds all five keys with the failed key set to the stripped output.
C5_ReadFailureIsSwallowed ==
  (epc # "idle" /\ (~toolPresent \/ efail # {})) =>
    /\ epc # "failed"
    /\ epc = "done" =>
         /\ FileIsRecord
         /\ DOMAIN Parse(file.text) = Keys
         /\ \A k \in efail : IsStripped(Parse(file.text)[k], eouts[k])

C8_NoPartialRecord ==
  ((file # file0 \/ epc \in {"write", "done"}) /\ FileIsRecord)
    => DOMAIN Parse(file.text) = Keys

C8_Witness ==
  /\ epc = "write"
  /\ Len(file.text) >= 2
  /\ Len(file.text) < Len(Dump(expSettings))

\* C9: settings.json is untouched until all five read queries have returned;
\* an export that fails during the queries leaves it as it was.
C9_FileUntouchedBeforeOpen ==
  epc \in {"query", "open", "failed"} => file = file0

C9_Witness ==
  /\ epc = "failed"
  /\ toolPresent
  /\ DOMAIN expSettings # {}
  /\ file0 = FileOf(DocText(QuotedRecord))

\* C10: every value an import writes is the one under that key in the single
\* reading of settings.json made before the first write, whatever a
\* concurrent export does to the file meanwhile; a reading that did not
\* parse (missing, truncated, half-written) ends the import with no write.
C10_AllWritesFromOneRead ==
  /\ \A i \in 1..Len(wlog) :
       /\ LoadedOk
       /\ wlog[i].k \in DOMAIN Parse(iloaded.text)
       /\ wlog[i].v = Parse(iloaded.text)[wlog[i].k]
  /\ (ImpPastLoad /\ ~LoadedOk) => (ipc = "failed" /\ wlog = <<>>)

C10_Witness ==
  /\ conc
  /\ ipc = "write"
  /\ Len(wlog) >= 1
  /\ epc = "done"
  /\ iloaded = FileOf(DocText(QuotedRecord))
  /\ FileIsRecord
  /\ Parse(file.text) # Parse(iloaded.text)

====
